---- MODULE Spec2Model ----
(***************************************************************************)
(* Model of gyld-teams (src/index.ts): min-max scoring of players, seeded  *)
(* shuffle, greedy assignment to the lowest-total team, selection of the   *)
(* best of 10 trials by standard deviation of the team averages, report.   *)
(*                                                                         *)
(* Arithmetic is exact.  A normalized metric is a numerator over NormDen,  *)
(* an engagement_score a numerator over ScoreDen, a team average a         *)
(* numerator over AvgDen.  A generator value r in [0,1) is a numerator     *)
(* over RngDen.  The standard deviation is kept as N^3 * AvgDen^2 * its    *)
(* square, which orders the trials of one run exactly as the deviation.    *)
(***************************************************************************)
EXTENDS Integers, Sequences, FiniteSets

\* ---------------------------------------------------------------- bounds
MaxPlayers == 3      \* longest input table of the run
MaxTeams   == 3      \* largest --teams value
MaxSeed    == 2      \* largest --seed value
MaxMetric  == 2      \* largest raw metric value of the scorer inputs
MaxRecords == 3      \* longest player list handed to normalizeAndScore alone
MaxLen     == 3      \* longest array handed to shuffle alone
MaxItem    == 2      \* largest item of such an array
RngDen     == 4      \* generator values are 0/RngDen .. (RngDen-1)/RngDen

\* ------------------------------------------------------- program constants
trials   == 10
Infinity == -1       \* stands for the JavaScript value Infinity
metrics  == <<1, 2, 3>>  \* event engagements, messages sent, days active

VARIABLES
    fileExists, csv, numTeams, seed,       \* inputs of the run
    run, firstRun,                         \* which run of the two, result of the first
    pc, exitCode,
    players, i, shuffledPlayers, k, teams,
    lowestStdDev, bestAssignment, bestTrialIndex,
    debugLog, output,
    fpc, fin, fout                         \* a single call of a pure function

runVars == <<fileExists, csv, numTeams, seed, run, firstRun, pc, exitCode,
             players, i, shuffledPlayers, k, teams, lowestStdDev,
             bestAssignment, bestTrialIndex, debugLog, output>>
funVars == <<fpc, fin, fout>>
vars == <<fileExists, csv, numTeams, seed, run, firstRun, pc, exitCode,
          players, i, shuffledPlayers, k, teams, lowestStdDev,
          bestAssignment, bestTrialIndex, debugLog, output, fpc, fin, fout>>

\* ---------------------------------------------------------------- helpers
Range(s) == {s[x] : x \in 1..Len(s)}

RECURSIVE SeqsUpTo(_, _)
SeqsUpTo(S, n) ==
    IF n = 0 THEN {<<>>}
    ELSE LET shorter == SeqsUpTo(S, n - 1)
         IN  shorter \cup {Append(s, x) : s \in {t \in shorter : Len(t) = n - 1}, x \in S}

RECURSIVE SumSeq(_)
SumSeq(s) == IF s = <<>> THEN 0 ELSE s[1] + SumSeq(Tail(s))

RECURSIVE Gcd(_, _)
Gcd(a, b) == IF b = 0 THEN a ELSE Gcd(b, a % b)

RECURSIVE LcmUpTo(_)
LcmUpTo(n) == IF n <= 1 THEN 1 ELSE LET l == LcmUpTo(n - 1) IN (l * n) \div Gcd(l, n)

NormDen  == LcmUpTo(MaxMetric)           \* every max - min divides it
ScoreDen == Len(metrics) * NormDen
AvgDen   == ScoreDen * LcmUpTo(MaxPlayers)  \* every team size divides AvgDen / ScoreDen

\* ------------------------------------------------------------------ Scorer
\* Math.min(...values) / Math.max(...values) over a non-empty list
minMax(ps, metric) ==
    LET values == {ps[x].m[metric] : x \in 1..Len(ps)}
    IN  [min |-> CHOOSE v \in values : \A w \in values : v <= w,
         max |-> CHOOSE v \in values : \A w \in values : v >= w]

normalizedValueNoMin(ps, metric, player) ==
    LET mm == minMax(ps, metric)
    IN  IF mm.max - mm.min = 0 THEN 0
        ELSE player.m[metric] * (NormDen \div (mm.max - mm.min))

\* (max - min) === 0 ? 0 : (value - min) / (max - min), as a numerator over NormDen
normalizedValue(ps, metric, player) ==
    LET mm == minMax(ps, metric)
    IN  IF mm.max - mm.min = 0 THEN 0
        ELSE (player.m[metric] - mm.min) * (NormDen \div (mm.max - mm.min))

\* normalizedScoreSum / metrics.length, as a numerator over ScoreDen
normalizeAndScore(ps, ms) ==
    [x \in 1..Len(ps) |->
        [ps[x] EXCEPT !.engagement_score =
            SumSeq([y \in 1..Len(ms) |-> normalizedValue(ps, ms[y], ps[x])])]]

\* records.map(...) then normalizeAndScore; player_id is the row number
readAndProcessPlayerData(records) ==
    normalizeAndScore(
        [x \in 1..Len(records) |->
            [player_id |-> x, m |-> records[x], engagement_score |-> 0]],
        metrics)

\* ---------------------------------------------------------------- Shuffler
floorMul(r, n) == (r * n) \div RngDen     \* Math.floor(rng() * n), rng() = r/RngDen

swap(array, a, b) == [array EXCEPT ![a] = array[b], ![b] = array[a]]

RECURSIVE shuffleLoopSattolo(_, _, _, _)
shuffleLoopSattolo(array, rng, currentIndex, drawn) ==
    IF currentIndex = 0 THEN array
    ELSE LET randomIndex == floorMul(rng[drawn + 1], currentIndex - 1)
         IN  shuffleLoopSattolo(swap(array, currentIndex, randomIndex + 1), rng,
                                currentIndex - 1, drawn + 1)

\* the while loop of shuffle; positions are 1-based here, 0-based in the code
RECURSIVE shuffleLoop(_, _, _, _)
shuffleLoop(array, rng, currentIndex, drawn) ==
    IF currentIndex = 0 THEN array
    ELSE LET randomIndex == floorMul(rng[drawn + 1], currentIndex)
         IN  shuffleLoop(swap(array, currentIndex, randomIndex + 1), rng,
                         currentIndex - 1, drawn + 1)

shuffle(array, rng) == shuffleLoop(array, rng, Len(array), 0)

\* ------------------------------------------------------- seeded generator
trialSeed(sd, idx) == <<sd, idx>>                     \* `${seed}-${i}`

\* the d-th value of the stream of the seedrandom library for one seed
\* string; the library is outside the repository, a fixed mixing function of
\* the seed, the trial index and the position stands for it
streamValue(ts, d) ==
    ((ts[1] + 1) * (ts[2] + 2) * (d + 1) + ts[2] * ts[2] + ts[1] * d + (ts[2] \div 3)) % RngDen

seedrandomUnseeded(ts) == [d \in 1..MaxPlayers |-> (streamValue(ts, d) + run) % RngDen]

\* seedrandom(trialSeed): the stream of values the generator will return,
\* a function of the seed string alone
seedrandom(ts) == [d \in 1..MaxPlayers |-> streamValue(ts, d)]

\* ---------------------------------------------------------------- Assigner
\* Array.from({ length: numTeams }, ...): a length <= 0 gives the empty array
newTeams(n) ==
    [id \in 1..(IF n > 0 THEN n ELSE 0) |->
        [id |-> id, players |-> <<>>, total_engagement_score |-> 0]]

insertAt(s, p, x) == SubSeq(s, 1, p) \o <<x>> \o SubSeq(s, p + 1, Len(s))

RECURSIVE sortByScoreThenId(_)
sortByScoreThenId(ts) ==
    IF ts = <<>> THEN <<>>
    ELSE LET sorted == sortByScoreThenId(SubSeq(ts, 1, Len(ts) - 1))
             x      == ts[Len(ts)]
             before == {p \in 1..Len(sorted) :
                          \/ sorted[p].total_engagement_score < x.total_engagement_score
                          \/ /\ sorted[p].total_engagement_score = x.total_engagement_score
                             /\ sorted[p].id < x.id}
         IN  insertAt(sorted, Cardinality(before), x)

RECURSIVE sortByScoreDescending(_)
sortByScoreDescending(ts) ==
    IF ts = <<>> THEN <<>>
    ELSE LET sorted == sortByScoreDescending(SubSeq(ts, 1, Len(ts) - 1))
             x      == ts[Len(ts)]
             before == {p \in 1..Len(sorted) :
                          sorted[p].total_engagement_score >= x.total_engagement_score}
         IN  insertAt(sorted, Cardinality(before), x)

\* teams.sort((a, b) => a.total_engagement_score - b.total_engagement_score):
\* ascending and stable, equal totals keep the order they had in ts
RECURSIVE sortByScore(_)
sortByScore(ts) ==
    IF ts = <<>> THEN <<>>
    ELSE LET sorted == sortByScore(SubSeq(ts, 1, Len(ts) - 1))
             x      == ts[Len(ts)]
             before == {p \in 1..Len(sorted) :
                          sorted[p].total_engagement_score <= x.total_engagement_score}
         IN  insertAt(sorted, Cardinality(before), x)

\* [...teams].sort((a, b) => a.id - b.id); the ids are 1..Len(ts)
sortById(ts) == [x \in 1..Len(ts) |-> CHOOSE t \in Range(ts) : t.id = x]

\* the body of shuffledPlayers.forEach
assign(ts, player) ==
    LET sorted == sortByScore(ts)
    IN  IF sorted = <<>> THEN sorted           \* targetTeam is undefined
        ELSE [sorted EXCEPT
                ![1].players = Append(@, player),
                ![1].total_engagement_score = @ + player.engagement_score]

\* ---------------------------------------------------------- Trial Selector
\* t.total_engagement_score / (t.players.length || 1), a numerator over AvgDen
teamAvg(t) ==
    (t.total_engagement_score * (AvgDen \div ScoreDen))
        \div (IF Len(t.players) = 0 THEN 1 ELSE Len(t.players))

\* Len(numbers)^3 * AvgDen^2 * (the standard deviation)^2; 0 for the empty list
calculateStandardDeviation(numbers) ==
    IF Len(numbers) = 0 THEN 0
    ELSE LET n == Len(numbers)
             S == SumSeq(numbers)
         IN  SumSeq([x \in 1..n |-> (n * numbers[x] - S) * (n * numbers[x] - S)])

isLowerOrEqual(sd, lowest) == lowest = Infinity \/ sd <= lowest

\* stdDev < lowestStdDev
isLower(sd, lowest) == lowest = Infinity \/ sd < lowest

\* ---------------------------------------------------------------- Reporter
\* x.toFixed(4) of a numerator over AvgDen: the nearest multiple of 1/10000
toFixed4(a) == (2 * 10000 * a + AvgDen) \div (2 * AvgDen)

assignmentLines(ts) ==
    LET perTeam == [x \in 1..Len(ts) |->
                      [y \in 1..Len(ts[x].players) |->
                          <<ts[x].players[y].player_id, ts[x].id>>]]
        Flat[x \in 0..Len(ts)] == IF x = 0 THEN <<>> ELSE Flat[x - 1] \o perTeam[x]
    IN  Flat[Len(ts)]

teamSummary(ts) ==
    [x \in 1..Len(ts) |->
        [id |-> ts[x].id, size |-> Len(ts[x].players), avg |-> toFixed4(teamAvg(ts[x]))]]

\* ------------------------------------------------------------------ inputs
\* rows of level_a_players_csv.csv: the three metrics of one player
PlayerPool == {<<0, 0, 0>>, <<2, 0, 0>>, <<0, 2, 0>>, <<1, 2, 2>>}
TeamCounts == (-1)..MaxTeams
Seeds      == 0..MaxSeed

idle == /\ fpc = "idle" /\ fin = <<>> /\ fout = <<>>

\* the state main() starts from
startOfMain ==
    /\ pc = "start"
    /\ exitCode = -1
    /\ players = <<>>
    /\ i = 0
    /\ shuffledPlayers = <<>>
    /\ k = 0
    /\ teams = <<>>
    /\ lowestStdDev = Infinity
    /\ bestAssignment = <<>>
    /\ bestTrialIndex = -1
    /\ debugLog = <<>>
    /\ output = <<>>

Init ==
    /\ fileExists \in BOOLEAN
    /\ csv \in SeqsUpTo(PlayerPool, MaxPlayers)
    /\ numTeams \in TeamCounts
    /\ seed \in Seeds
    /\ run = 1
    /\ firstRun = <<>>
    /\ startOfMain
    /\ idle

\* ----------------------------------------------------------------- actions
\* line 56: readFileSync throws when the file is missing, main().catch exits 1
ReadFails ==
    /\ pc = "start"
    /\ ~fileExists
    /\ pc' = "failed"
    /\ exitCode' = 1
    /\ UNCHANGED <<fileExists, csv, numTeams, seed, run, firstRun, players, i,
                   shuffledPlayers, k, teams, lowestStdDev, bestAssignment,
                   bestTrialIndex, debugLog, output, fpc, fin, fout>>

\* lines 56-62: the players are read and scored, the trial loop is entered
ReadPlayers ==
    /\ pc = "start"
    /\ fileExists
    /\ players' = readAndProcessPlayerData(csv)
    /\ pc' = "loop"
    /\ UNCHANGED <<fileExists, csv, numTeams, seed, run, firstRun, exitCode, i,
                   shuffledPlayers, k, teams, lowestStdDev, bestAssignment,
                   bestTrialIndex, debugLog, output, fpc, fin, fout>>

\* lines 68-81: seed the generator, shuffle a copy, make the empty teams
StartTrial ==
    /\ pc = "loop"
    /\ i < trials
    /\ shuffledPlayers' = shuffle(players, seedrandom(trialSeed(seed, i)))
    /\ teams' = newTeams(numTeams)
    /\ k' = 1
    /\ pc' = "assign"
    /\ UNCHANGED <<fileExists, csv, numTeams, seed, run, firstRun, exitCode, players,
                   i, lowestStdDev, bestAssignment, bestTrialIndex, debugLog,
                   output, fpc, fin, fout>>

\* lines 83-90: one iteration of shuffledPlayers.forEach
AssignPlayer ==
    /\ pc = "assign"
    /\ k <= Len(shuffledPlayers)
    /\ teams' = assign(teams, shuffledPlayers[k])
    /\ k' = k + 1
    /\ UNCHANGED <<fileExists, csv, numTeams, seed, run, firstRun, pc, exitCode,
                   players, i, shuffledPlayers, lowestStdDev, bestAssignment,
                   bestTrialIndex, debugLog, output, fpc, fin, fout>>

\* lines 92-107: score the partition, log it, keep it when strictly better
EndTrial ==
    /\ pc = "assign"
    /\ k > Len(shuffledPlayers)
    /\ LET teamAvgs == [x \in 1..Len(teams) |-> teamAvg(teams[x])]
           stdDev   == calculateStandardDeviation(teamAvgs)
       IN  /\ debugLog' = Append(debugLog,
                  [trial |-> i + 1, stdDev |-> stdDev, teams |-> sortById(teams)])
           /\ IF isLower(stdDev, lowestStdDev)
              THEN /\ lowestStdDev' = stdDev
                   /\ bestAssignment' = teams
                   /\ bestTrialIndex' = i + 1
              ELSE UNCHANGED <<lowestStdDev, bestAssignment, bestTrialIndex>>
    /\ i' = i + 1
    /\ pc' = "loop"
    /\ UNCHANGED <<fileExists, csv, numTeams, seed, run, firstRun, exitCode, players,
                   shuffledPlayers, k, teams, output, fpc, fin, fout>>

\* lines 114-133: sort the best assignment by id in place and print it
Report ==
    /\ pc = "loop"
    /\ i >= trials
    /\ bestAssignment' = sortById(bestAssignment)
    /\ output' = [assignment |-> assignmentLines(sortById(bestAssignment)),
                  summary    |-> teamSummary(sortById(bestAssignment))]
    /\ exitCode' = 0
    /\ pc' = "done"
    /\ UNCHANGED <<fileExists, csv, numTeams, seed, run, firstRun, players, i,
                   shuffledPlayers, k, teams, lowestStdDev, bestTrialIndex,
                   debugLog, fpc, fin, fout>>

\* line 196: the program is started a second time on the same file and options
RunAgain ==
    /\ pc \in {"done", "failed"}
    /\ run = 1
    /\ run' = 2
    /\ firstRun' = [debugLog |-> debugLog, bestTrialIndex |-> bestTrialIndex,
                    bestAssignment |-> bestAssignment, output |-> output,
                    exitCode |-> exitCode]
    /\ pc' = "start"
    /\ exitCode' = -1
    /\ players' = <<>>
    /\ i' = 0
    /\ shuffledPlayers' = <<>>
    /\ k' = 0
    /\ teams' = <<>>
    /\ lowestStdDev' = Infinity
    /\ bestAssignment' = <<>>
    /\ bestTrialIndex' = -1
    /\ debugLog' = <<>>
    /\ output' = <<>>
    /\ UNCHANGED <<fileExists, csv, numTeams, seed, fpc, fin, fout>>

Next ==
    \/ ReadFails
    \/ ReadPlayers
    \/ StartTrial
    \/ AssignPlayer
    \/ EndTrial
    \/ Report
    \/ RunAgain

Spec == Init /\ [][Next]_vars

\* --------------------------------------- normalizeAndScore called on its own
off ==
    /\ fileExists = FALSE /\ csv = <<>> /\ numTeams = 0 /\ seed = 0
    /\ run = 0 /\ firstRun = <<>>
    /\ pc = "off" /\ exitCode = -1 /\ players = <<>> /\ i = 0
    /\ shuffledPlayers = <<>> /\ k = 0 /\ teams = <<>>
    /\ lowestStdDev = Infinity /\ bestAssignment = <<>> /\ bestTrialIndex = -1
    /\ debugLog = <<>> /\ output = <<>>

\* the first metric takes every value, the other two the extreme values
MetricRows == {<<a, b, c>> : a \in 0..MaxMetric, b \in {0, MaxMetric}, c \in {0, MaxMetric}}

InitScore ==
    /\ off
    /\ fpc = "call"
    /\ \E n \in 0..MaxRecords :
       \E rows \in [1..n -> MetricRows] :
          fin = [x \in 1..n |->
                    [player_id |-> x, m |-> rows[x], engagement_score |-> 0]]
    /\ fout = <<>>

ScoreCall ==
    /\ fpc = "call"
    /\ fout' = normalizeAndScore(fin, metrics)
    /\ fpc' = "return"
    /\ UNCHANGED <<fin, fileExists, csv, numTeams, seed, run, firstRun, pc, exitCode,
                   players, i, shuffledPlayers, k, teams, lowestStdDev,
                   bestAssignment, bestTrialIndex, debugLog, output>>

NextScore == ScoreCall

SpecScore == InitScore /\ [][NextScore]_vars

\* ------------------------------------------------- shuffle called on its own
InitShuffle ==
    /\ off
    /\ fpc = "call"
    /\ \E array \in SeqsUpTo(0..MaxItem, MaxLen) :
       \E rng \in [1..MaxLen -> 0..(RngDen - 1)] :
          fin = [array |-> array, rng |-> rng]
    /\ fout = <<>>

ShuffleCall ==
    /\ fpc = "call"
    /\ fout' = shuffle(fin.array, fin.rng)
    /\ fpc' = "return"
    /\ UNCHANGED <<fin, fileExists, csv, numTeams, seed, run, firstRun, pc, exitCode,
                   players, i, shuffledPlayers, k, teams, lowestStdDev,
                   bestAssignment, bestTrialIndex, debugLog, output>>

NextShuffle == ShuffleCall

SpecShuffle == InitShuffle /\ [][NextShuffle]_vars

\* ================================================================ properties
teamById(ts, id) == CHOOSE t \in Range(ts) : t.id = id

occurrences(ts, pid) ==
    SumSeq([x \in 1..Len(ts) |->
              Cardinality({y \in 1..Len(ts[x].players) : ts[x].players[y].player_id = pid})])

conserved(ts) == \A pid \in 1..Len(players) : occurrences(ts, pid) = 1

\* C1: at the end of every trial and in the final chosen partition, every
\* input player is in exactly one team's player list exactly once, whatever
\* the team count.
C1_Conservation ==
    /\ (pc = "loop" /\ i > 0) => conserved(teams)
    /\ pc = "done" => conserved(bestAssignment)

\* C2: after the 10 trials the retained partition is that of the first trial
\* whose standard deviation is the minimum of the 10, and the reported best
\* trial index is that 0-based index plus one.
C2_TrialSelection ==
    pc = "done" =>
        /\ Len(debugLog) = trials
        /\ LET sd(t)  == debugLog[t].stdDev
               lowest == CHOOSE v \in {sd(t) : t \in 1..trials} :
                            \A t \in 1..trials : v <= sd(t)
               first  == CHOOSE t \in 1..trials :
                            sd(t) = lowest /\ \A u \in 1..(t - 1) : sd(u) # lowest
           IN  /\ bestTrialIndex = (first - 1) + 1
               /\ debugLog[first].trial = bestTrialIndex
               /\ bestAssignment = debugLog[first].teams
               /\ lowestStdDev = lowest

C2_Witness ==
    /\ pc = "done"
    /\ bestTrialIndex > 1
    /\ \E t \in (bestTrialIndex + 1)..trials : debugLog[t].stdDev = lowestStdDev
    /\ \E t \in 1..(bestTrialIndex - 1) : debugLog[t].stdDev > lowestStdDev

\* the step is one iteration of the forEach
assignStep == pc = "assign" /\ pc' = "assign" /\ k' = k + 1

receives(id) == Len(teamById(teams', id).players) = Len(teamById(teams, id).players) + 1

\* C3: at every assignment step the team that receives the player had,
\* immediately before the step, a total no greater than any other team's.
C3_Greedy ==
    [][assignStep =>
          \A t \in Range(teams) :
              receives(t.id) =>
                  \A u \in Range(teams) :
                      t.total_engagement_score <= u.total_engagement_score]_vars

lastScore(t) == t.players[Len(t.players)].engagement_score

C3_Witness ==
    /\ pc = "assign"
    /\ Len(teams) >= 2
    /\ Len(teams[1].players) > 0
    /\ \E x \in 2..Len(teams) :
          /\ teams[1].total_engagement_score - lastScore(teams[1])
                < teams[x].total_engagement_score
          /\ teams[x].total_engagement_score < teams[1].total_engagement_score

\* C4: with more teams than players (and at least one player) the final
\* partition has exactly player_count teams of one player, each with that
\* player's score as average, and N - player_count empty teams of average 0.
C4_MoreTeamsThanPlayers ==
    (pc = "done" /\ numTeams > Len(players) /\ Len(players) >= 1) =>
        LET single == {t \in Range(bestAssignment) : Len(t.players) = 1}
            empty  == {t \in Range(bestAssignment) : Len(t.players) = 0}
        IN  /\ Cardinality(single) = Len(players)
            /\ Cardinality(empty) = numTeams - Len(players)
            /\ \A t \in single :
                  teamAvg(t) = t.players[1].engagement_score * (AvgDen \div ScoreDen)
            /\ \A t \in empty : teamAvg(t) = 0

C6_InvalidTeamCount ==
    (numTeams <= 0 /\ csv # <<>>) =>
        /\ pc \in {"start", "failed"}
        /\ debugLog = <<>>
        /\ output = <<>>

\* C7: with zero players parsed the run fails before the scorer is used, no
\* trial runs and nothing is printed (here with a valid team count, so that
\* only the empty table is at fault).
C7_EmptyInput ==
    (csv = <<>> /\ numTeams >= 1) =>
        /\ pc \in {"start", "failed"}
        /\ debugLog = <<>>
        /\ output = <<>>

\* C8: on a non-empty list every normalized metric value is in [0,1], is 0
\* when the metric is constant over the players, and every engagement_score
\* is in [0,1].
C8_ScoreBound ==
    (fpc = "return" /\ fin # <<>>) =>
        \A x \in 1..Len(fin) :
            /\ \A y \in 1..Len(metrics) :
                  LET nv == normalizedValue(fin, metrics[y], fin[x])
                  IN  /\ 0 <= nv /\ nv <= NormDen
                      /\ (\A z \in 1..Len(fin) : fin[z].m[metrics[y]] = fin[x].m[metrics[y]])
                            => nv = 0
            /\ 0 <= fout[x].engagement_score
            /\ fout[x].engagement_score <= ScoreDen

C8_Witness ==
    /\ fpc = "return"
    /\ Len(fin) >= 2
    /\ \E x \in 1..Len(fin) : normalizedValue(fin, 1, fin[x]) = NormDen
    /\ \E x \in 1..Len(fin) : fin[x].m[1] > 0 /\ normalizedValue(fin, 1, fin[x]) = 0
    /\ \E x \in 1..Len(fin) : fout[x].engagement_score > 0
    /\ \A x \in 1..Len(fin) : fin[x].m[3] = fin[1].m[3] /\ fin[x].m[3] > 0

firstMinPosition(ts) ==
    CHOOSE p \in 1..Len(ts) :
        /\ \A q \in 1..Len(ts) : ts[p].total_engagement_score <= ts[q].total_engagement_score
        /\ \A q \in 1..(p - 1) : ts[q].total_engagement_score # ts[p].total_engagement_score

\* C9: at every assignment step the player goes to the first team, in the
\* order the previous step left, among those with the minimum total; the
\* first pick of a trial goes to team id 1.
C9_TieBreak ==
    [][(assignStep /\ teams # <<>>) =>
          /\ receives(teams[firstMinPosition(teams)].id)
          /\ teams'[1].id = teams[firstMinPosition(teams)].id
          /\ k = 1 => (receives(1) /\ \A x \in 1..Len(teams) : teams[x].id = x)]_vars

\* a tie at the minimum that went to a team other than the lowest id
C9_Witness ==
    /\ pc = "assign"
    /\ teams # <<>>
    /\ Len(teams[1].players) > 0
    /\ \E x \in 2..Len(teams) :
          /\ teams[x].total_engagement_score
                = teams[1].total_engagement_score - lastScore(teams[1])
          /\ teams[x].id < teams[1].id

\* for i from length-1 down to 1: j drawn in [0, i], swap i and j
RECURSIVE standardShuffleFrom(_, _, _, _)
standardShuffleFrom(array, rng, idx, drawn) ==
    IF idx < 1 THEN array
    ELSE LET j == floorMul(rng[drawn + 1], idx + 1)
         IN  standardShuffleFrom(swap(array, idx + 1, j + 1), rng, idx - 1, drawn + 1)

count(s, v) == Cardinality({x \in 1..Len(s) : s[x] = v})

\* C10: shuffle returns a permutation of its input, the one the standard
\* swap-based shuffle produces from the same stream.
C10_Shuffle ==
    fpc = "return" =>
        /\ fout = standardShuffleFrom(fin.array, fin.rng, Len(fin.array) - 1, 0)
        /\ Len(fout) = Len(fin.array)
        /\ \A v \in Range(fin.array) \cup Range(fout) : count(fout, v) = count(fin.array, v)

C10_Witness ==
    /\ fpc = "return"
    /\ Len(fin.array) >= 3
    /\ Cardinality(Range(fin.array)) = Len(fin.array)
    /\ fout # fin.array
    /\ fout[Len(fout)] # fin.array[Len(fout)]
    /\ fout[1] # fin.array[1]

====
